---------------------------- MODULE Spec2Model ----------------------------
(***************************************************************************)
(* Model of generate_placeholders.py: the noise synthesizer                *)
(* (generate_noise_texture), the seam blender (make_seamless) and the      *)
(* batch driver (main).                                                    *)
(*                                                                         *)
(* Two specifications share the actions of the two functions:              *)
(*   Spec      a driver that calls generate_noise_texture with arbitrary   *)
(*             arguments (valid or not, seeded or not) any number of       *)
(*             times, and make_seamless on arbitrary square images;        *)
(*   SpecMain  main() over a terrain table.                                *)
(*                                                                         *)
(* Reals are fixed-point integers scaled by Scale.  The library generator  *)
(* `random` is a deterministic generator over RngMod states; math.sin is   *)
(* its 5th-order Taylor polynomial (exact to 2e-5 on the arguments the     *)
(* bounded sizes produce); on every input of the bounded model the         *)
(* fixed-point `variation` equals the one the floating-point code gives.   *)
(***************************************************************************)
EXTENDS Integers, Sequences, FiniteSets

(***************************************************************************)
(* Bounds of the model.                                                    *)
(***************************************************************************)
\* largest `size` the driver passes to generate_noise_texture
MaxGenSize == 2
\* largest side of the images the driver passes to make_seamless
\* (blend_width stays a power of two up to side 11, where x / blend_width
\*  and the cross-fade are exact in binary floating point)
MaxSide == 8
\* side of the textures main generates (512 in the program)
MainSize == 4
\* longest terrain table main is run over
MaxRecords == 3

(***************************************************************************)
(* Arithmetic helpers.                                                     *)
(***************************************************************************)
\* fixed-point scale of the real numbers of generate_noise_texture
Scale == 24000

\* int(n / d) for d > 0: Python's int() truncates toward zero
Trunc(n, d) == IF n >= 0 THEN n \div d ELSE -((-n) \div d)

\* faulty variant: the channel is not clamped
ClampNoLimit(v) == v
\* lines 120-122: max(0, min(255, v))
Clamp(v) == IF v < 0 THEN 0 ELSE IF v > 255 THEN 255 ELSE v

\* math.sin on a fixed-point argument: z - z^3/6 + z^5/120
Sin(z) ==
    LET z2 == Trunc(z * z, Scale)
        z3 == Trunc(z2 * z, Scale)
        z5 == Trunc(z3 * z2, Scale)
    IN  z - Trunc(z3, 6) + Trunc(z5, 120)

(***************************************************************************)
(* The shared pseudo-random generator (module `random`).                   *)
(***************************************************************************)
\* number of states of the generator
RngMod == 8
RngStates == 0 .. (RngMod - 1)

\* random.seed(s): the state is a function of the seed alone
SeedState(s) == s % RngMod
\* the state after one random.random()
NextRng(s) == (5 * s + 3) % RngMod
\* the value random.random() returns in state s, in [0, 1), fixed-point
RandomValue(s) == (s * Scale) \div RngMod

RECURSIVE Advance(_, _)
\* the state after n draws
Advance(s, n) == IF n = 0 THEN s ELSE Advance(NextRng(s), n - 1)

(***************************************************************************)
(* Images: a side and a pixel grid indexed [x, y] of (r, g, b) triples.    *)
(***************************************************************************)
Coords(n) == (0 .. (n - 1)) \X (0 .. (n - 1))

\* Image.new('RGB', (size, size)): every pixel is black
NewImage(n) == [size |-> n, px |-> [p \in Coords(n) |-> <<0, 0, 0>>]]

\* no image
NoImage == [size |-> 0, px |-> [p \in {} |-> <<0, 0, 0>>]]

\* seed=None is <<>>, seed=s is <<s>>
None == <<>>

VARIABLES
    pc,          \* control position
    rng,         \* state of the shared generator
    args,        \* generate_noise_texture: base_color, size, noise_strength, seed
    img,         \* generate_noise_texture: img / pixels
    k,           \* index of the next iteration of the running pixel loop
    drawLog,     \* ghost: the draws of the running call, <<x, y, purpose, state>>
    ref,         \* ghost: arguments and image of the first seeded call (driver)
    src,         \* make_seamless: img / src_pixels
    result,      \* make_seamless: result / pixels
    hsnap,       \* ghost: result as the horizontal pass left it
    touched,     \* ghost: every coordinate make_seamless read or wrote
    vwritten,    \* ghost: coordinates the vertical pass has written
    staleRead,   \* ghost: the vertical pass read a pixel it had written
    table,       \* main: ids of TERRAIN_COLORS in iteration order
    idx,         \* main: position in the table of the record in progress
    files,       \* main: the files written, <<filename, image>>
    dirCreated,  \* main: os.makedirs has succeeded
    generated    \* ghost: ids generate_noise_texture was called for, in order

vars == <<pc, rng, args, img, k, drawLog, ref, src, result, hsnap, touched,
          vwritten, staleRead, table, idx, files, dirCreated, generated>>

genVars == <<args, img, drawLog>>
seamVars == <<src, result, hsnap, touched, vwritten, staleRead>>
mainVars == <<table, idx, files, dirCreated, generated>>

NoArgs == [base_color |-> <<0, 0, 0>>, size |-> 0, noise_strength |-> 0, seed |-> None]
NoRef == [set |-> FALSE, args |-> NoArgs, image |-> NoImage]

(***************************************************************************)
(* generate_noise_texture                                                  *)
(***************************************************************************)
\* faulty variant: `if seed:`, which takes seed 0 for no seed
ReseedIfTruthy(seed, s) == IF seed # None /\ seed[1] # 0 THEN SeedState(seed[1]) ELSE s
\* lines 95-96: `if seed is not None: random.seed(seed)`
Reseed(seed, s) == IF seed # None THEN SeedState(seed[1]) ELSE s

\* lines 95-101: reseed, then Image.new, which raises ValueError on a
\* negative side; no parameter is validated
gen_Enter ==
    /\ pc = "gen_enter"
    /\ rng' = Reseed(args.seed, rng)
    /\ IF args.size < 0
       THEN /\ pc' = "gen_raised"
            /\ img' = NoImage
       ELSE /\ pc' = "gen_loop"
            /\ img' = NewImage(args.size)
    /\ k' = 0
    /\ UNCHANGED <<args, drawLog, ref>>
    /\ UNCHANGED seamVars
    /\ UNCHANGED mainVars

\* faulty variant: the loop stops one pixel short
GenIterationsShort(size) == IF size > 0 THEN size * size - 1 ELSE 0
\* lines 104-105: the number of iterations of the pixel loop (range of a
\* size that is not positive is empty)
GenIterations(size) == IF size > 0 THEN size * size ELSE 0

\* faulty variant: x is the outer loop
GenPosColumnMajor(i, size) == <<i \div size, i % size>>
\* lines 104-105: (x, y) of iteration i of `for y in range(size): for x in range(size)`
GenPos(i, size) == <<i % size, i \div size>>

\* faulty variant: the two wave draws are made before the octaves
DrawPurposesWavesFirst == <<"wave1", "wave2", "octave0", "octave1", "octave2">>
\* lines 108-115: the purposes of the five draws of a pixel, in the order drawn
DrawPurposes == <<"octave0", "octave1", "octave2", "wave1", "wave2">>

\* the generator state consumed by draw j (1..5) of a pixel begun in state s
DrawState(s, j) == Advance(s, j - 1)

\* the draw made for purpose `what` of a pixel begun in state s
DrawFor(s, what) ==
    LET j == CHOOSE i \in 1 .. 5 : DrawPurposes[i] = what
    IN  RandomValue(DrawState(s, j))

\* lines 107-111: the three octaves, (random.random() - 0.5) * (1.0 / (octave + 1))
Octaves(s) ==
    Trunc(DrawFor(s, "octave0") - Scale \div 2, 1)
    + Trunc(DrawFor(s, "octave1") - Scale \div 2, 2)
    + Trunc(DrawFor(s, "octave2") - Scale \div 2, 3)

\* lines 114-116: math.sin(x * 0.05 + r * 0.1) * 0.3 and the like for y * 0.07
Waves(s, x, y) ==
    LET wave1 == Trunc(Sin((x * Scale) \div 20 + DrawFor(s, "wave1") \div 10) * 3, 10)
        wave2 == Trunc(Sin((y * 7 * Scale) \div 100 + DrawFor(s, "wave2") \div 10) * 3, 10)
    IN  Trunc(wave1 + wave2, 2)

\* line 118: variation = int(noise * noise_strength)
Variation(s, x, y, strength) == Trunc((Octaves(s) + Waves(s, x, y)) * strength, Scale)

\* lines 120-124: the pixel written
NoisePixel(base_color, variation) ==
    <<Clamp(base_color[1] + variation),
      Clamp(base_color[2] + variation),
      Clamp(base_color[3] + variation)>>

\* lines 104-124: one iteration of the pixel loop, or its end
gen_Pixel ==
    /\ pc = "gen_loop"
    /\ k < GenIterations(args.size)
    /\ LET pos == GenPos(k, args.size)
           x == pos[1]
           y == pos[2]
           variation == Variation(rng, x, y, args.noise_strength)
       IN  /\ img' = [img EXCEPT !.px[<<x, y>>] = NoisePixel(args.base_color, variation)]
           /\ drawLog' = drawLog \o [j \in 1 .. 5 |->
                             <<x, y, DrawPurposes[j], DrawState(rng, j)>>]
    /\ rng' = Advance(rng, 5)
    /\ k' = k + 1
    /\ UNCHANGED <<pc, args, ref>>
    /\ UNCHANGED seamVars
    /\ UNCHANGED mainVars

\* ImageFilter.GaussianBlur(radius=1.5), a library filter: a deterministic
\* smoothing of the image alone, here the separable kernel (1 2 1)/4,
\* rounded, with the border pixels repeated; an empty image stays empty
Blur1(a, b, c) == (a + 2 * b + c + 2) \div 4
BlurImage(im) ==
    LET n == im.size
        at(p, x, y) == p[<<IF x < 0 THEN 0 ELSE IF x >= n THEN n - 1 ELSE x,
                           IF y < 0 THEN 0 ELSE IF y >= n THEN n - 1 ELSE y>>]
        hor == [p \in Coords(n) |-> [c \in 1 .. 3 |->
                   Blur1(at(im.px, p[1] - 1, p[2])[c], im.px[p][c], at(im.px, p[1] + 1, p[2])[c])]]
        ver == [p \in Coords(n) |-> [c \in 1 .. 3 |->
                   Blur1(at(hor, p[1], p[2] - 1)[c], hor[p][c], at(hor, p[1], p[2] + 1)[c])]]
    IN  [size |-> n, px |-> ver]

\* lines 126-129: the loop is over; blur and return
gen_Blur ==
    /\ pc = "gen_loop"
    /\ k >= GenIterations(args.size)
    /\ img' = BlurImage(img)
    /\ pc' = "gen_ret"
    /\ UNCHANGED <<rng, args, k, drawLog, ref>>
    /\ UNCHANGED seamVars
    /\ UNCHANGED mainVars

(***************************************************************************)
(* The driver of Spec: calls of generate_noise_texture.                    *)
(***************************************************************************)
DriverColors == {<<11, 30, 61>>, <<250, 128, 5>>, <<300, -5, 128>>}
DriverSizes == (-1) .. MaxGenSize
DriverStrengths == {-20, 20}
DriverSeeds == {None, <<0>>, <<3>>}

CallGenerate(base_color, size, noise_strength, seed) ==
    /\ pc = "idle"
    /\ args' = [base_color |-> base_color, size |-> size,
                noise_strength |-> noise_strength, seed |-> seed]
    /\ img' = NoImage
    /\ drawLog' = <<>>
    /\ k' = 0
    /\ pc' = "gen_enter"
    /\ UNCHANGED <<rng, ref>>
    /\ UNCHANGED seamVars
    /\ UNCHANGED mainVars

\* the caller receives the image; the first seeded call is kept for comparison
ReturnGenerate ==
    /\ pc = "gen_ret"
    /\ ref' = IF ~ref.set /\ args.seed # None
              THEN [set |-> TRUE, args |-> args, image |-> img]
              ELSE ref
    /\ pc' = "idle"
    /\ args' = NoArgs
    /\ img' = NoImage
    /\ drawLog' = <<>>
    /\ k' = 0
    /\ UNCHANGED rng
    /\ UNCHANGED seamVars
    /\ UNCHANGED mainVars

(***************************************************************************)
(* make_seamless                                                           *)
(***************************************************************************)
\* faulty variant: the quarter is rounded up
blend_widthCeil(size) == (size + 3) \div 4
\* line 138: blend_width = size // 4
blend_width(size) == size \div 4

\* faulty variant: the opposite column (row) is one too far
OppositeOffByOne(size, i) == size - blend_width(size) + i + 1
\* lines 144 and 159: the opposite column (row) of column (row) i
Opposite(size, i) == size - blend_width(size) + i

\* faulty variant: the weights are exchanged
CrossFadeMirrored(c1, c2, i, w) == Trunc(c1 * (w - i) + c2 * i, w)
\* lines 143, 149-151: int(c1 * t + c2 * (1 - t)) with t = i / w; for w a
\* power of two (every side below 12, and 512) the floating-point value is
\* exact, so this is the truncated exact quotient
CrossFade(c1, c2, i, w) == Trunc(c1 * i + c2 * (w - i), w)

FadePixel(p1, p2, i, w) == [c \in 1 .. 3 |-> CrossFade(p1[c], p2[c], i, w)]

\* src_pixels[x, y] and pixels[x, y]; a coordinate outside the image raises
\* IndexError, as x / blend_width raises ZeroDivisionError when blend_width
\* is 0: either ends the call in "seam_raised"
InImage(im, p) == p \in Coords(im.size)
PixelAt(im, p) == IF InImage(im, p) THEN im.px[p] ELSE <<0, 0, 0>>

\* lines 140-141: iteration i of `for y in range(size): for x in range(blend_width)`
HPos(i, size) == <<i % blend_width(size), i \div blend_width(size)>>
\* lines 155-156: iteration i of `for x in range(size): for y in range(blend_width)`
VPos(i, size) == <<i \div blend_width(size), i % blend_width(size)>>
\* the number of iterations of either loop nest
Iterations(size) == size * blend_width(size)

\* lines 133-138, entered with the image `im`
seam_Enter(im) ==
    /\ src' = im
    /\ result' = im
    /\ hsnap' = NoImage
    /\ touched' = {}
    /\ vwritten' = {}
    /\ staleRead' = FALSE
    /\ k' = 0
    /\ pc' = "seam_h"

\* lines 146-147: the operands of the horizontal cross-fade: src_pixels, the input
HOperand(x, y) == PixelAt(src, <<x, y>>)

\* lines 140-153: one iteration of the horizontal pass
seam_H ==
    /\ pc = "seam_h"
    /\ k < Iterations(src.size)
    /\ LET size == src.size
           pos == HPos(k, size)
           x == pos[1]
           y == pos[2]
           opposite_x == Opposite(size, x)
           used == {<<x, y>>, <<opposite_x, y>>}
       IN  /\ touched' = touched \cup used
           /\ IF blend_width(size) # 0 /\ \A p \in used : InImage(src, p)
              THEN /\ result' = [result EXCEPT !.px[<<x, y>>] =
                          FadePixel(HOperand(x, y), HOperand(opposite_x, y),
                                    x, blend_width(size))]
                   /\ pc' = pc
              ELSE /\ result' = result
                   /\ pc' = "seam_raised"
    /\ k' = k + 1
    /\ UNCHANGED <<src, hsnap, vwritten, staleRead>>
    /\ UNCHANGED <<rng, ref>>
    /\ UNCHANGED genVars
    /\ UNCHANGED mainVars

\* line 155: the horizontal pass is over
seam_HDone ==
    /\ pc = "seam_h"
    /\ k >= Iterations(src.size)
    /\ hsnap' = result
    /\ k' = 0
    /\ pc' = "seam_v"
    /\ UNCHANGED <<src, result, touched, vwritten, staleRead>>
    /\ UNCHANGED <<rng, ref>>
    /\ UNCHANGED genVars
    /\ UNCHANGED mainVars

\* faulty variant: the vertical pass reads the input image
VOperandFromInput(x, y) == PixelAt(src, <<x, y>>)
\* lines 161-162: the operands of the vertical cross-fade: pixels, the image
\* being built
VOperand(x, y) == PixelAt(result, <<x, y>>)

\* lines 155-168: one iteration of the vertical pass
seam_V ==
    /\ pc = "seam_v"
    /\ k < Iterations(src.size)
    /\ LET size == src.size
           pos == VPos(k, size)
           x == pos[1]
           y == pos[2]
           opposite_y == Opposite(size, y)
           used == {<<x, y>>, <<x, opposite_y>>}
       IN  /\ touched' = touched \cup used
           /\ staleRead' = (staleRead \/ used \cap vwritten # {})
           /\ IF blend_width(size) # 0 /\ \A p \in used : InImage(result, p)
              THEN /\ result' = [result EXCEPT !.px[<<x, y>>] =
                          FadePixel(VOperand(x, y), VOperand(x, opposite_y),
                                    y, blend_width(size))]
                   /\ vwritten' = vwritten \cup {<<x, y>>}
                   /\ pc' = pc
              ELSE /\ result' = result
                   /\ vwritten' = vwritten
                   /\ pc' = "seam_raised"
    /\ k' = k + 1
    /\ UNCHANGED <<src, hsnap>>
    /\ UNCHANGED <<rng, ref>>
    /\ UNCHANGED genVars
    /\ UNCHANGED mainVars

\* line 170: return result
seam_Return ==
    /\ pc = "seam_v"
    /\ k >= Iterations(src.size)
    /\ pc' = "seam_ret"
    /\ UNCHANGED <<k, rng, ref>>
    /\ UNCHANGED seamVars
    /\ UNCHANGED genVars
    /\ UNCHANGED mainVars

(***************************************************************************)
(* The driver of Spec: calls of make_seamless on test images.              *)
(***************************************************************************)
Palette == <<0, 255, 100, 37>>
PaletteAt(i) == Palette[(i % 4) + 1]

\* a square image of side n whose channels vary along x, along y and along both
TestImage(n, a, b, c) ==
    [size |-> n,
     px |-> [p \in Coords(n) |-> <<PaletteAt(a * p[1] + b * p[2] + c),
                                   PaletteAt(a * p[1] + c + 1),
                                   PaletteAt(b * p[2] + c + 2)>>]]

TestImages == {TestImage(n, a, b, c) : n \in 1 .. MaxSide, a \in 0 .. 2, b \in 0 .. 2, c \in 0 .. 3}

\* make_seamless does not touch the generator: the driver calls it before
\* its generator calls
CallSeamless(im) ==
    /\ pc = "idle"
    /\ ~ref.set
    /\ seam_Enter(im)
    /\ UNCHANGED <<rng, ref>>
    /\ UNCHANGED genVars
    /\ UNCHANGED mainVars

ReturnSeamless ==
    /\ pc = "seam_ret"
    /\ src' = NoImage
    /\ result' = NoImage
    /\ hsnap' = NoImage
    /\ touched' = {}
    /\ vwritten' = {}
    /\ staleRead' = FALSE
    /\ k' = 0
    /\ pc' = "idle"
    /\ UNCHANGED <<rng, ref>>
    /\ UNCHANGED genVars
    /\ UNCHANGED mainVars

Init ==
    /\ pc = "idle"
    /\ rng \in RngStates
    /\ args = NoArgs
    /\ img = NoImage
    /\ k = 0
    /\ drawLog = <<>>
    /\ ref = NoRef
    /\ src = NoImage
    /\ result = NoImage
    /\ hsnap = NoImage
    /\ touched = {}
    /\ vwritten = {}
    /\ staleRead = FALSE
    /\ table = <<>>
    /\ idx = 0
    /\ files = {}
    /\ dirCreated = FALSE
    /\ generated = <<>>

Next ==
    \/ \E c \in DriverColors, n \in DriverSizes, s \in DriverStrengths, sd \in DriverSeeds :
           CallGenerate(c, n, s, sd)
    \/ gen_Enter
    \/ gen_Pixel
    \/ gen_Blur
    \/ ReturnGenerate
    \/ \E im \in TestImages : CallSeamless(im)
    \/ seam_H
    \/ seam_HDone
    \/ seam_V
    \/ seam_Return
    \/ ReturnSeamless

Spec == Init /\ [][Next]_vars

(***************************************************************************)
(* Properties of the two functions, checked under Spec.                    *)
(***************************************************************************)
InByteRange(v) == 0 <= v /\ v <= 255
PixelInRange(p) == \A c \in 1 .. 3 : InByteRange(p[c])
ImageInRange(im) == \A p \in DOMAIN im.px : PixelInRange(im.px[p])
InGenerate == pc \in {"gen_enter", "gen_loop", "gen_ret", "gen_raised"}
InSeamless == pc \in {"seam_h", "seam_v", "seam_ret", "seam_raised"}

\* C1: every channel generate_noise_texture writes before the blur, for a
\* base color with channels in [0,255], is in [0,255]; and for an input whose
\* channels are in [0,255] every channel make_seamless produces, after the
\* horizontal and after the vertical pass, is in [0,255].
C1_ChannelsInRange ==
    /\ (pc = "gen_loop" /\ PixelInRange(args.base_color)) => ImageInRange(img)
    /\ (InSeamless /\ ImageInRange(src)) => (ImageInRange(result) /\ ImageInRange(hsnap))

\* the pixel loop of a call with base color (11, 30, 61) is over, and the
\* noise took the red channel of a pixel below 0, where it was clamped
C1_Witness ==
    /\ pc = "gen_loop"
    /\ k = GenIterations(args.size)
    /\ args.base_color = <<11, 30, 61>>
    /\ \E p \in DOMAIN img.px : img.px[p][1] = 0 /\ img.px[p][2] > 0

\* C2: after make_seamless the pixels at (0, y) and (size-1, y) differ by at
\* most 1 in each channel, for every row y, and so do the pixels at (x, 0)
\* and (x, size-1) for every column x.  Stated for the sides on which a
\* cross-fade takes place (size >= 4); on smaller sides the image is returned
\* as it came and its edges differ as they did.
C2_SeamContinuity ==
    (pc = "seam_ret" /\ result.size >= 4) =>
        \A i \in 0 .. (result.size - 1) : \A c \in 1 .. 3 :
            LET last == result.size - 1
                dh == result.px[<<0, i>>][c] - result.px[<<last, i>>][c]
                dv == result.px[<<i, 0>>][c] - result.px[<<i, last>>][c]
            IN  /\ -1 <= dh /\ dh <= 1
                /\ -1 <= dv /\ dv <= 1

\* C3: a call with a seed, 0 included, returns the image the first call with
\* the same (base_color, size, noise_strength, seed) returned, whatever state
\* the calls in between left the generator in.
C3_SeededDeterminism ==
    (pc = "gen_ret" /\ ref.set /\ args = ref.args) => img = ref.image

\* a second call with seed 0 has returned a texture with pixels
C3_Witness ==
    /\ pc = "gen_ret"
    /\ ref.set
    /\ args = ref.args
    /\ args.seed = <<0>>
    /\ args.size >= 2
    /\ args.noise_strength # 0

InvalidArgs(a) ==
    \/ a.size <= 0
    \/ a.noise_strength < 0
    \/ ~PixelInRange(a.base_color)

ExpectedFade(a, b, i, w) == (a * i + b * (w - i)) \div w

\* C7: after the horizontal pass, with blendWidth = size // 4, every pixel
\* with x < blendWidth is per channel trunc(in(x,y)*t + in(size-blendWidth+x,y)*(1-t)),
\* t = x/blendWidth, both operands taken from the input (column 0 is the input
\* column size-blendWidth); every pixel with x >= blendWidth is the input's.
C7_HorizontalPass ==
    pc \in {"seam_v", "seam_ret"} =>
        LET size == src.size
            w == size \div 4
        IN  \A p \in Coords(size) :
                LET x == p[1]
                    y == p[2]
                IN  /\ x >= w => hsnap.px[p] = src.px[p]
                    /\ x < w => \A c \in 1 .. 3 :
                           hsnap.px[p][c] =
                               ExpectedFade(src.px[p][c], src.px[<<size - w + x, y>>][c], x, w)
                    /\ (x = 0 /\ w > 0) => hsnap.px[p] = src.px[<<size - w, y>>]

\* the horizontal pass of an image of side 8 is over, and a pixel of column 1
\* is a mix that equals neither of its operands
C7_Witness ==
    /\ pc = "seam_v"
    /\ src.size = 8
    /\ \E y \in 0 .. 7 :
           /\ hsnap.px[<<1, y>>] # src.px[<<1, y>>]
           /\ hsnap.px[<<1, y>>] # src.px[<<7, y>>]

\* C8: the final pixel with y < blendWidth is per channel
\* trunc(h(x,y)*t + h(x,size-blendWidth+y)*(1-t)), t = y/blendWidth, h the
\* image the complete horizontal pass left; the vertical pass never reads a
\* pixel it has written; every pixel with y >= blendWidth keeps h's value.
C8_VerticalPass ==
    /\ ~staleRead
    /\ pc = "seam_ret" =>
        LET size == src.size
            w == size \div 4
        IN  \A p \in Coords(size) :
                LET x == p[1]
                    y == p[2]
                IN  /\ y >= w => result.px[p] = hsnap.px[p]
                    /\ y < w => \A c \in 1 .. 3 :
                           result.px[p][c] =
                               ExpectedFade(hsnap.px[p][c], hsnap.px[<<x, size - w + y>>][c], y, w)

\* make_seamless has returned an image of side 8 that both passes changed,
\* and the vertical pass changed a pixel the horizontal pass had changed
C8_Witness ==
    /\ pc = "seam_ret"
    /\ src.size = 8
    /\ \E p \in {<<0, 1>>, <<1, 1>>} :
           /\ hsnap.px[p] # src.px[p]
           /\ result.px[p] # hsnap.px[p]
           /\ result.px[p] # src.px[p]

\* C9: the draws of a call are made pixel by pixel in row-major order, five
\* per pixel, for octave 0, octave 1, octave 2, wave1, wave2 in this order,
\* each from the generator state the previous draw left: draw d (from 0)
\* belongs to pixel (x, y) with 5*(y*size + x) <= d <= 5*(y*size + x) + 4,
\* the first draw of a seeded call is the first of the seed's stream, and a
\* call that returns has drawn 5*size*size times.
C9_DrawOrder ==
    (pc \in {"gen_loop", "gen_ret"}) =>
        /\ Len(drawLog) = 5 * k
        /\ \A i \in 1 .. Len(drawLog) :
               LET d == i - 1
                   pixel == d \div 5
               IN  /\ drawLog[i][1] = pixel % args.size
                   /\ drawLog[i][2] = pixel \div args.size
                   /\ 5 * (drawLog[i][2] * args.size + drawLog[i][1]) <= d
                   /\ d <= 5 * (drawLog[i][2] * args.size + drawLog[i][1]) + 4
                   /\ drawLog[i][3] = <<"octave0", "octave1", "octave2", "wave1", "wave2">>[(d % 5) + 1]
                   /\ drawLog[i][4] = Advance(drawLog[1][4], d)
        /\ (drawLog # <<>> /\ args.seed # None) => drawLog[1][4] = SeedState(args.seed[1])
        /\ pc = "gen_ret" => Len(drawLog) = 5 * args.size * args.size

\* a call of side 2 has returned: 20 draws, the last for wave2 of pixel (1, 1)
C9_Witness ==
    /\ pc = "gen_ret"
    /\ args.size = 2
    /\ Len(drawLog) = 20
    /\ drawLog[20][1] = 1
    /\ drawLog[20][2] = 1
    /\ drawLog[20][3] = "wave2"

\* C10: for every side >= 1, divisible by 4 or not, make_seamless raises
\* neither IndexError nor ZeroDivisionError, every coordinate it reads or
\* writes is in [0,size) x [0,size), the image it builds has the side of its
\* input, and for size < 4 the image returned is the input.
C10_AnySide ==
    InSeamless =>
        /\ pc # "seam_raised"
        /\ touched \subseteq Coords(src.size)
        /\ result.size = src.size
        /\ DOMAIN result.px = Coords(src.size)
        /\ (pc = "seam_ret" /\ src.size < 4) => (result = src /\ touched = {})

\* an image of side 7 (blend width 1) has been blended and returned
C10_Witness ==
    /\ pc = "seam_ret"
    /\ src.size = 7
    /\ touched # {}
    /\ result # src

(***************************************************************************)
(* main                                                                    *)
(***************************************************************************)
\* lines 13-51 and 53-91: four of the 37 terrain records
TerrainIds == {0, 5, 18, 36}
TERRAIN_COLORS ==
    [id \in TerrainIds |->
        CASE id = 0 -> <<11, 30, 61>>
          [] id = 5 -> <<184, 176, 138>>
          [] id = 18 -> <<224, 220, 210>>
          [] id = 36 -> <<47, 143, 178>>]
TERRAIN_NAMES ==
    [id \in TerrainIds |->
        CASE id = 0 -> "deep_ocean"
          [] id = 5 -> "tidal_flat"
          [] id = 18 -> "salt_flat"
          [] id = 36 -> "aquifer_ceiling"]

\* the tables main is run over: up to MaxRecords records with unique ids, in
\* any order (a dict holds each key once and iterates in insertion order)
Tables ==
    {t \in UNION {[1 .. n -> TerrainIds] : n \in 0 .. MaxRecords} :
        \A i, j \in DOMAIN t : i # j => t[i] # t[j]}

DigitChar == <<"0", "1", "2", "3", "4", "5", "6", "7", "8", "9">>

RECURSIVE Digits(_)
\* the decimal digits of n >= 0
Digits(n) == IF n < 10 THEN <<DigitChar[n + 1]>> ELSE Digits(n \div 10) \o <<DigitChar[(n % 10) + 1]>>

\* faulty variant: no padding
FormatUnpadded(n) == Digits(n)
\* line 180: f"{terrain_id:02d}", zero-padded to at least 2 digits
Format02d(n) == IF Len(Digits(n)) < 2 THEN <<"0">> \o Digits(n) ELSE Digits(n)

\* lines 179-180: f"{terrain_id:02d}_{name}.png"
Filename(id) == Format02d(id) \o <<"_", TERRAIN_NAMES[id], ".png">>

\* line 184: noise_strength=20 and seed=terrain_id * 42
MainNoiseStrength == 20
SeedFactor == 42

\* lines 173-176: os.makedirs(output_dir, exist_ok=True) succeeds
main_Start ==
    /\ pc = "main_start"
    /\ dirCreated' = TRUE
    /\ idx' = 1
    /\ pc' = "main_loop"
    /\ UNCHANGED <<rng, k, ref, table, files, generated>>
    /\ UNCHANGED genVars
    /\ UNCHANGED seamVars

\* line 174: os.makedirs raises OSError, which main does not catch
main_MakedirsFail ==
    /\ pc = "main_start"
    /\ pc' = "failed"
    /\ UNCHANGED <<rng, k, ref>>
    /\ UNCHANGED genVars
    /\ UNCHANGED seamVars
    /\ UNCHANGED mainVars

\* lines 178-184: the next record of the table; generate_noise_texture is called
main_Generate ==
    /\ pc = "main_loop"
    /\ idx <= Len(table)
    /\ args' = [base_color |-> TERRAIN_COLORS[table[idx]], size |-> MainSize,
                noise_strength |-> MainNoiseStrength,
                seed |-> <<table[idx] * SeedFactor>>]
    /\ generated' = Append(generated, table[idx])
    /\ img' = NoImage
    /\ drawLog' = <<>>
    /\ k' = 0
    /\ pc' = "gen_enter"
    /\ UNCHANGED <<rng, ref, table, idx, files, dirCreated>>
    /\ UNCHANGED seamVars

\* lines 193-194: the table is exhausted
main_Done ==
    /\ pc = "main_loop"
    /\ idx > Len(table)
    /\ pc' = "done"
    /\ UNCHANGED <<rng, k, ref>>
    /\ UNCHANGED genVars
    /\ UNCHANGED seamVars
    /\ UNCHANGED mainVars

\* line 187: img = make_seamless(img)
main_Seamless ==
    /\ pc = "gen_ret"
    /\ seam_Enter(img)
    /\ UNCHANGED <<rng, ref>>
    /\ UNCHANGED genVars
    /\ UNCHANGED mainVars

\* lines 190-191: img.save(filepath, "PNG") succeeds (a file of that name is
\* replaced); the loop goes on
main_Save ==
    /\ pc = "seam_ret"
    /\ files' = {f \in files : f[1] # Filename(table[idx])}
                    \cup {<<Filename(table[idx]), result>>}
    /\ idx' = idx + 1
    /\ pc' = "main_loop"
    /\ UNCHANGED <<rng, k, ref, table, dirCreated, generated>>
    /\ UNCHANGED genVars
    /\ UNCHANGED seamVars

\* faulty variant: the failed record is skipped and the loop goes on
main_SaveFailSkip ==
    /\ pc = "seam_ret"
    /\ idx' = idx + 1
    /\ pc' = "main_loop"
    /\ UNCHANGED <<rng, k, ref, table, files, dirCreated, generated>>
    /\ UNCHANGED genVars
    /\ UNCHANGED seamVars

\* line 190: img.save raises; main catches nothing, so the run ends here.
\* `files` holds the files completely written.
main_SaveFail ==
    /\ pc = "seam_ret"
    /\ pc' = "failed"
    /\ UNCHANGED <<rng, k, ref>>
    /\ UNCHANGED genVars
    /\ UNCHANGED seamVars
    /\ UNCHANGED mainVars

InitMain ==
    /\ pc = "main_start"
    /\ rng \in RngStates
    /\ args = NoArgs
    /\ img = NoImage
    /\ k = 0
    /\ drawLog = <<>>
    /\ ref = NoRef
    /\ src = NoImage
    /\ result = NoImage
    /\ hsnap = NoImage
    /\ touched = {}
    /\ vwritten = {}
    /\ staleRead = FALSE
    /\ table \in Tables
    /\ idx = 0
    /\ files = {}
    /\ dirCreated = FALSE
    /\ generated = <<>>

NextMain ==
    \/ main_Start
    \/ main_MakedirsFail
    \/ main_Generate
    \/ main_Done
    \/ gen_Enter
    \/ gen_Pixel
    \/ gen_Blur
    \/ main_Seamless
    \/ seam_H
    \/ seam_HDone
    \/ seam_V
    \/ seam_Return
    \/ main_Save
    \/ main_SaveFail

SpecMain == InitMain /\ [][NextMain]_vars

(***************************************************************************)
(* Properties of main, checked under SpecMain.                             *)
(***************************************************************************)
FileNames == {f[1] : f \in files}

\* "{id zero-padded to 2 digits}_{name}.png" for an id below 100
ExpectedName(id) ==
    <<DigitChar[(id \div 10) + 1], DigitChar[(id % 10) + 1], "_", TERRAIN_NAMES[id], ".png">>

\* C5: a run of main over N >= 0 records with unique ids in which no write
\* fails ends with exactly N files, one per record, named
\* "{id zero-padded to 2 digits}_{name}.png", pairwise distinct, none missing
\* and none extra; for N = 0 the directory is created and no file is written.
C5_BatchCompleteness ==
    pc = "done" =>
        /\ dirCreated
        /\ FileNames = {ExpectedName(table[i]) : i \in 1 .. Len(table)}
        /\ Cardinality(files) = Len(table)
        /\ Cardinality(FileNames) = Len(table)
        /\ \A f \in files : f[2].size = MainSize

\* a run over two records, one of them with a one-digit id, has ended
C5_Witness ==
    /\ pc = "done"
    /\ Len(table) = 2
    /\ table[2] = 5
    /\ Cardinality(files) = 2

\* C6: records are processed one at a time in table order, every record
\* before the one in progress has its file, and once a save fails the run has
\* ended: no later record has been generated or written, no step follows,
\* and the files of the earlier records are all there; the failed record has
\* no file.
C6_FailFast ==
    /\ pc # "main_start" =>
           /\ generated = SubSeq(table, 1, Len(generated))
           /\ Len(generated) \in {idx - 1, idx}
           /\ pc \in {"gen_enter", "gen_loop", "gen_ret", "seam_h", "seam_v", "seam_ret"}
                  => Len(generated) = idx
           /\ idx >= 1 => FileNames = {Filename(table[i]) : i \in 1 .. (idx - 1)}
           /\ Cardinality(files) = Cardinality(FileNames)
    /\ pc = "failed" =>
           /\ ~ENABLED NextMain
           /\ dirCreated => (idx <= Len(table) /\ Len(generated) = idx)

\* the save of the second of three records has failed: the first record's
\* file is there, the third record has not been generated
C6_Witness ==
    /\ pc = "failed"
    /\ Len(table) = 3
    /\ idx = 2
    /\ generated = SubSeq(table, 1, 2)
    /\ Cardinality(files) = 1

=============================================================================
